---- MODULE Spec2Model ----
(***************************************************************************)
(* Model of AnaplanAPI (src/anaplan_api_wrapper.py): one instance, one     *)
(* caller thread.  Every HTTP request the instance issues, and every       *)
(* time.sleep, is one step; the response is chosen by the platform.        *)
(* Calls nest through a stack of return labels; labels are named after the *)
(* function and the source line at which execution resumes.                *)
(***************************************************************************)
EXTENDS Integers, Sequences, FiniteSets, TLC

(* ---------------- bounds ---------------- *)
\* largest size (bytes) of the local file when upload_file is called directly
MaxFileSize == 10
\* largest size (bytes) of the local file when execute_sequence uploads it
MaxSeqFileSize == 2
\* largest chunk_size argument
MaxChunkSize == 2
\* max_attempts of monitor_task (the default, 240 in the source, scaled down)
MaxAttempts == 2
\* longest listing a listing endpoint returns
MaxListing == 2

(* ---------------- program constants ---------------- *)
\* default poll_interval of monitor_task, in seconds
poll_interval_default == 5

(* ---------------- value sets ---------------- *)
None == "None"
Tokens == {"t1", "t2"}
Names == {"Main", "main"}
Ids == {"id1", "id2"}
\* the task ids the platform hands out, in the order it creates tasks
TaskIdSeq == <<"task1", "task2", "task3">>
TaskIds == {TaskIdSeq[i] : i \in DOMAIN TaskIdSeq}
FileIds == {"f1"}
TerminalStates == {"COMPLETE", "FAILED", "CANCELLED"}
NonTerminalStates == {"IN_PROGRESS"}
CurrentSteps == {None, "Failed."}
ChunkSizes == (-1)..MaxChunkSize
Entries == [name : Names, id : Ids]
RECURSIVE SeqsUpTo(_, _)
SeqsUpTo(S, n) ==
  IF n = 0 THEN {<<>>}
  ELSE LET shorter == SeqsUpTo(S, n - 1)
       IN shorter \cup {Append(s, e) : s \in {t \in shorter : Len(t) = n - 1}, e \in S}
Listings == SeqsUpTo(Entries, MaxListing)

VARIABLES
  top,        \* the public method the caller invoked last
  pc,         \* label at which execution resumes; "idle" between calls
  stack,      \* return labels of the active calls
  rv,         \* value returned by the call that returned last
  outcome,    \* how the last top-level call ended
  token,      \* self.token
  headers,    \* self.headers (None, or the token inside the Authorization header)
  reqs,       \* requests and sleeps issued by the current top-level call, in order
  loc,        \* frame of get_file_id / get_process_id
  trig,       \* frame of trigger_process
  mon,        \* frame of monitor_task
  chunk,      \* frame of upload_file_chunk
  up,         \* frame of upload_file
  seq,        \* frame of execute_sequence
  file,       \* the local file at file_path as upload_file finds it: exists, size
  f           \* the handle opened by upload_file: open, pos

vars == <<top, pc, stack, rv, outcome, token, headers, reqs,
          loc, trig, mon, chunk, up, seq, file, f>>

(* ---------------- frames ---------------- *)
NoOutcome == [kind |-> "none", type |-> "", msg |-> <<>>, value |-> <<>>]
loc0 == [name |-> None, items |-> <<>>]
trig0 == [process_id |-> None]
mon0 == [process_id |-> None, task_id |-> None, poll_interval |-> 0,
         max_attempts |-> 0, attempt |-> 0]
chunk0 == [file_id |-> None, chunk_number |-> 0, chunk_data |-> 0]
up0 == [chunk_size |-> 1, chunk_count |-> 0, file_id |-> None, range_next |-> 0]
seq0 == [process_wake_up |-> None, process_name |-> None, chunk_size |-> 1,
         wake_up_id |-> None, wake_up_task_id |-> None, file_id |-> None,
         process_id |-> None, task_id |-> None]
file0 == [exists |-> FALSE, size |-> 0]
f0 == [open |-> FALSE, pos |-> 0]

Init ==
  /\ top = "none"
  /\ pc = "idle"
  /\ stack = <<>>
  /\ rv = <<>>
  /\ outcome = NoOutcome
  /\ token = None
  /\ headers = None
  /\ reqs = <<>>
  /\ loc = loc0
  /\ trig = trig0
  /\ mon = mon0
  /\ chunk = chunk0
  /\ up = up0
  /\ seq = seq0
  /\ file = file0
  /\ f = f0

(* ---------------- the request log ---------------- *)
Req0 == [kind |-> "", headers |-> None, resp |-> "", name |-> None,
         process_id |-> None, task_id |-> None, file_id |-> None,
         chunk_number |-> 0, size |-> 0, chunkCount |-> 0]
Issue(r) == reqs' = Append(reqs, r)

(* ---------------- control transfer ---------------- *)
\* faulty variant: the file is opened without `with` and never closed
WithExitLeak(h) == h
\* a `with open(...)` block is left: the handle is closed
WithExit(h) == [h EXCEPT !.open = FALSE]

\* return v to the caller (to the user when no call is active)
Return(v) ==
  IF stack = <<>>
  THEN /\ pc' = "idle"
       /\ stack' = stack
       /\ rv' = <<>>
       /\ outcome' = [kind |-> "return", type |-> "", msg |-> <<>>, value |-> v]
  ELSE /\ pc' = Head(stack)
       /\ stack' = Tail(stack)
       /\ rv' = v
       /\ outcome' = outcome

\* an exception of the given type and message leaves every active call: each
\* handler on the way logs and re-raises, and an enclosing `with` closes f
Raise(type, msg) ==
  /\ pc' = "idle"
  /\ stack' = <<>>
  /\ rv' = <<>>
  /\ outcome' = [kind |-> "raise", type |-> type, msg |-> msg, value |-> <<>>]
  /\ f' = WithExit(f)

\* call the function whose entry label is fn; resume at label back
Call(fn, back) ==
  /\ pc' = fn
  /\ stack' = <<back>> \o stack
  /\ rv' = <<>>
  /\ outcome' = outcome

\* faulty variant: every method authenticates again
NeedsAuthAlways(h) == TRUE
\* faulty variant: the lazy authentication is missing
NeedsAuthNever(h) == FALSE
\* `if not self.headers:`
NeedsAuth(h) == h = None

\* `if not self.headers: self.authenticate()` at the entry of a method whose
\* body starts at label body
LazyAuthenticate(body) ==
  /\ IF NeedsAuth(headers)
     THEN Call("authenticate", body)
     ELSE /\ pc' = body
          /\ UNCHANGED <<stack, rv, outcome>>
  /\ UNCHANGED <<top, token, headers, reqs, loc, trig, mon, chunk, up, seq, file, f>>

(* ---------------- authenticate ---------------- *)
AuthResponses == Tokens \cup {"transport_error", "not_success", "no_token"}

authenticate ==
  /\ pc = "authenticate"
  /\ \E r \in AuthResponses :
       /\ Issue([Req0 EXCEPT !.kind = "authenticate", !.headers = "Basic", !.resp = r])
       /\ IF r \in Tokens
          THEN /\ token' = r
               /\ headers' = r
               /\ Return(<<>>)
               /\ f' = f
          ELSE /\ UNCHANGED <<token, headers>>
               /\ IF r = "no_token"
                  THEN Raise("KeyError", <<"tokenInfo">>)
                  ELSE Raise("RequestException",
                             IF r = "not_success" THEN <<"Invalid credentials">>
                                                  ELSE <<"transport">>)
  /\ UNCHANGED <<top, loc, trig, mon, chunk, up, seq, file>>

\* the caller invokes a public method on the idle instance
Invoke(method, entry) ==
  /\ pc = "idle"
  /\ top' = method
  /\ pc' = entry
  /\ stack' = <<>>
  /\ rv' = <<>>
  /\ outcome' = NoOutcome
  /\ reqs' = <<>>
  /\ f' = f0
  /\ UNCHANGED <<token, headers>>

\* the frames a fresh top-level call starts with
Frames(l, t, m, c, u, s, fl) ==
  /\ loc' = l /\ trig' = t /\ mon' = m /\ chunk' = c
  /\ up' = u /\ seq' = s /\ file' = fl

call_authenticate ==
  /\ Invoke("authenticate", "authenticate")
  /\ Frames(loc0, trig0, mon0, chunk0, up0, seq0, file0)

(* ---------------- resource locator ---------------- *)
\* the search loop of get_file_id / get_process_id: <<id>> of the first entry
\* named name, <<>> when the loop falls through
\* faulty variant: the loop keeps going and returns the last match
RECURSIVE FindLast(_, _)
FindLast(items, name) ==
  IF items = <<>> THEN <<>>
  ELSE IF FindLast(Tail(items), name) # <<>> THEN FindLast(Tail(items), name)
       ELSE IF Head(items).name = name THEN <<Head(items).id>> ELSE <<>>
RECURSIVE Find(_, _)
Find(items, name) ==
  IF items = <<>> THEN <<>>
  ELSE IF Head(items).name = name THEN <<Head(items).id>>
       ELSE Find(Tail(items), name)

\* the frame of a call that returned to its caller is gone
Discard(frame, frame0) == IF stack = <<>> THEN frame ELSE frame0

list_files ==
  /\ pc = "list_files"
  /\ LazyAuthenticate("list_files_138")

\* the GET of list_files; its result becomes `files` of get_file_id
list_files_get ==
  /\ pc = "list_files_138"
  /\ \/ /\ Issue([Req0 EXCEPT !.kind = "list_files", !.headers = headers,
                              !.resp = "transport_error"])
        /\ Raise("RequestException", <<"transport">>)
        /\ loc' = loc
     \/ \E files \in Listings :
          /\ Issue([Req0 EXCEPT !.kind = "list_files", !.headers = headers, !.resp = "ok"])
          /\ loc' = [loc EXCEPT !.items = files]
          /\ pc' = "get_file_id_190"
          /\ UNCHANGED <<stack, rv, outcome, f>>
  /\ UNCHANGED <<top, token, headers, trig, mon, chunk, up, seq, file>>

get_file_id ==
  /\ pc = "get_file_id_190"
  /\ IF Find(loc.items, loc.name) # <<>>
     THEN /\ Return(Find(loc.items, loc.name))
          /\ loc' = Discard(loc, loc0)
          /\ f' = f
     ELSE /\ Raise("ValueError", <<"File ", loc.name, " not found">>)
          /\ loc' = loc
  /\ UNCHANGED <<top, token, headers, reqs, trig, mon, chunk, up, seq, file>>

list_processes ==
  /\ pc = "list_processes"
  /\ LazyAuthenticate("list_processes_165")

\* the GET of list_processes; its result becomes `processes` of get_process_id
list_processes_get ==
  /\ pc = "list_processes_165"
  /\ \/ /\ Issue([Req0 EXCEPT !.kind = "list_processes", !.headers = headers,
                              !.resp = "transport_error"])
        /\ Raise("RequestException", <<"transport">>)
        /\ loc' = loc
     \/ \E processes \in Listings :
          /\ Issue([Req0 EXCEPT !.kind = "list_processes", !.headers = headers, !.resp = "ok"])
          /\ loc' = [loc EXCEPT !.items = processes]
          /\ pc' = "get_process_id_214"
          /\ UNCHANGED <<stack, rv, outcome, f>>
  /\ UNCHANGED <<top, token, headers, trig, mon, chunk, up, seq, file>>

get_process_id ==
  /\ pc = "get_process_id_214"
  /\ IF Find(loc.items, loc.name) # <<>>
     THEN /\ Return(Find(loc.items, loc.name))
          /\ loc' = Discard(loc, loc0)
          /\ f' = f
     ELSE /\ Raise("ValueError", <<"Process ", loc.name, " not found">>)
          /\ loc' = loc
  /\ UNCHANGED <<top, token, headers, reqs, trig, mon, chunk, up, seq, file>>

call_get_file_id ==
  \E file_name \in Names :
    /\ Invoke("get_file_id", "list_files")
    /\ Frames([loc0 EXCEPT !.name = file_name], trig0, mon0, chunk0, up0, seq0, file0)

call_get_process_id ==
  \E process_name \in Names :
    /\ Invoke("get_process_id", "list_processes")
    /\ Frames([loc0 EXCEPT !.name = process_name], trig0, mon0, chunk0, up0, seq0, file0)

(* ---------------- trigger_process ---------------- *)
\* the platform creates a new task for every run request it accepts
NewTaskId ==
  TaskIdSeq[1 + Cardinality({i \in DOMAIN reqs : /\ reqs[i].kind = "trigger"
                                                  /\ reqs[i].resp \in TaskIds})]
TriggerResponses == {NewTaskId} \cup {"transport_error", "not_success", "no_task"}

\* faulty variant: the status message of the response is not looked at
TriggerRejectedNever(r) == FALSE
\* `data.get("status", {}).get("message") != "Success"`
TriggerRejected(r) == r = "not_success"

trigger_process ==
  /\ pc = "trigger_process"
  /\ LazyAuthenticate("trigger_process_332")

trigger_process_post ==
  /\ pc = "trigger_process_332"
  /\ \E r \in TriggerResponses :
       /\ Issue([Req0 EXCEPT !.kind = "trigger", !.headers = headers,
                             !.process_id = trig.process_id, !.resp = r])
       /\ CASE r = "transport_error" -> Raise("RequestException", <<"transport">>)
            [] TriggerRejected(r) -> Raise("RequestException", <<"Unknown error">>)
            [] r = "no_task" -> Raise("KeyError", <<"task">>)
            [] OTHER -> Return(<<r>>) /\ f' = f
  /\ UNCHANGED <<top, token, headers, loc, trig, mon, chunk, up, seq, file>>

call_trigger_process ==
  \E process_id \in Ids :
    /\ Invoke("trigger_process", "trigger_process")
    /\ Frames(loc0, [process_id |-> process_id], mon0, chunk0, up0, seq0, file0)

(* ---------------- monitor_task ---------------- *)
StatusResponses == TerminalStates \cup NonTerminalStates \cup {"transport_error", "no_task"}

\* faulty variant: CANCELLED is not in the list of terminal states
IsTerminalNoCancelled(task_state) == task_state \in {"COMPLETE", "FAILED"}
\* `task_state in ["COMPLETE", "FAILED", "CANCELLED"]`
IsTerminal(task_state) == task_state \in TerminalStates

\* faulty variant: a failed status request is treated as one more attempt
PollFailsNever(r) == FALSE
\* `except requests.RequestException` of the polling loop catches the request
PollFails(r) == r = "transport_error"

\* faulty variant: the loop polls twice as long as max_attempts allows
MoreAttemptsDouble(m) == m.attempt < 2 * m.max_attempts
\* faulty variant: the loop runs one attempt too many
MoreAttemptsInclusive(m) == m.attempt <= m.max_attempts
\* `for attempt in range(max_attempts)` has another iteration
MoreAttempts(m) == m.attempt < m.max_attempts

\* data["task"].get("currentStep", "Task Completed Successfully")
Message(currentStep) ==
  IF currentStep = None THEN "Task Completed Successfully" ELSE currentStep

StatusReq(r) == [Req0 EXCEPT !.kind = "status", !.headers = headers,
                             !.process_id = mon.process_id,
                             !.task_id = mon.task_id, !.resp = r]
SleepReq(seconds) == [Req0 EXCEPT !.kind = "sleep", !.size = seconds]

monitor_task ==
  /\ pc = "monitor_task"
  /\ LazyAuthenticate("monitor_task_370")

\* one iteration of `for attempt in range(max_attempts)`
monitor_task_poll ==
  /\ pc = "monitor_task_370"
  /\ MoreAttempts(mon)
  /\ \E r \in StatusResponses :
       CASE PollFails(r) ->
              /\ Issue(StatusReq(r))
              /\ Raise("RequestException", <<"transport">>)
              /\ mon' = mon
         [] r = "no_task" ->
              /\ Issue(StatusReq(r))
              /\ Raise("KeyError", <<"task">>)
              /\ mon' = mon
         [] IsTerminal(r) ->
              /\ Issue(StatusReq(r))
              /\ \E currentStep \in CurrentSteps : Return(<<r, Message(currentStep)>>)
              /\ UNCHANGED <<mon, f>>
         [] OTHER ->
              /\ reqs' = reqs \o <<StatusReq(r), SleepReq(mon.poll_interval)>>
              /\ mon' = [mon EXCEPT !.attempt = @ + 1]
              /\ UNCHANGED <<pc, stack, rv, outcome, f>>
  /\ UNCHANGED <<top, token, headers, loc, trig, chunk, up, seq, file>>

\* the range is exhausted
monitor_task_timeout ==
  /\ pc = "monitor_task_370"
  /\ ~MoreAttempts(mon)
  /\ Raise("TimeoutError", <<"Task monitoring timed out">>)
  /\ UNCHANGED <<top, token, headers, reqs, loc, trig, mon, chunk, up, seq, file>>

call_monitor_task ==
  \E process_id \in Ids, task_id \in {TaskIdSeq[1]},
     poll_interval \in {1, poll_interval_default}, max_attempts \in 0..MaxAttempts :
    /\ Invoke("monitor_task", "monitor_task")
    /\ Frames(loc0, trig0,
              [process_id |-> process_id, task_id |-> task_id,
               poll_interval |-> poll_interval, max_attempts |-> max_attempts,
               attempt |-> 0],
              chunk0, up0, seq0, file0)

(* ---------------- upload_file_chunk ---------------- *)
upload_file_chunk ==
  /\ pc = "upload_file_chunk"
  /\ LazyAuthenticate("upload_file_chunk_244")

\* faulty variant: a failed chunk request is logged and the upload goes on
upload_file_chunk_put_swallow ==
  /\ pc = "upload_file_chunk_244"
  /\ \E r \in {"ok", "transport_error"} :
       /\ Issue([Req0 EXCEPT !.kind = "chunk", !.headers = headers,
                             !.file_id = chunk.file_id,
                             !.chunk_number = chunk.chunk_number,
                             !.size = chunk.chunk_data, !.resp = r])
       /\ Return(<<>>) /\ f' = f
  /\ UNCHANGED <<top, token, headers, loc, trig, mon, chunk, up, seq, file>>

upload_file_chunk_put ==
  /\ pc = "upload_file_chunk_244"
  /\ \E r \in {"ok", "transport_error"} :
       /\ Issue([Req0 EXCEPT !.kind = "chunk", !.headers = headers,
                             !.file_id = chunk.file_id,
                             !.chunk_number = chunk.chunk_number,
                             !.size = chunk.chunk_data, !.resp = r])
       /\ IF r = "ok"
          THEN Return(<<>>) /\ f' = f
          ELSE Raise("RequestException", <<"transport">>)
  /\ UNCHANGED <<top, token, headers, loc, trig, mon, chunk, up, seq, file>>

call_upload_file_chunk ==
  \E file_id \in FileIds, chunk_number \in 0..1, chunk_data \in 0..1 :
    /\ Invoke("upload_file_chunk", "upload_file_chunk")
    /\ Frames(loc0, trig0, mon0,
              [file_id |-> file_id, chunk_number |-> chunk_number,
               chunk_data |-> chunk_data],
              up0, seq0, file0)

(* ---------------- upload_file ---------------- *)
\* Python's a // b for b # 0 (floor division)
FloorDiv(a, b) == IF b > 0 THEN a \div b ELSE (-a) \div (-b)

\* faulty variant: the chunk count is rounded down
ChunkCountFloor(file_size, chunk_size) == FloorDiv(file_size, chunk_size)
\* chunk_count = (file_size + chunk_size - 1) // chunk_size
ChunkCount(file_size, chunk_size) == FloorDiv(file_size + chunk_size - 1, chunk_size)

\* number of bytes f.read(n) returns at position pos of a file of the given size
Read(size, pos, n) ==
  IF n < 0 \/ n > size - pos THEN size - pos ELSE n

\* what os.path.exists and os.path.getsize may find at file_path
LocalFiles ==
  {file0} \cup [exists : {TRUE},
                size : 0..(IF top = "execute_sequence" THEN MaxSeqFileSize
                                                       ELSE MaxFileSize)]

InitiateResponses == FileIds \cup {"transport_error", "no_id"}

\* faulty variant: the path is not checked
PathExistsAlways(fl) == TRUE
\* `os.path.exists(file_path)`
PathExists(fl) == fl.exists

\* faulty variant: the id of the initiate response is not checked
NoFileIdNever(r) == FALSE
\* `not file_id` for the id of the initiate response
NoFileId(r) == r = "no_id"

upload_file ==
  /\ pc = "upload_file"
  /\ LazyAuthenticate("upload_file_273")

\* the path check, the chunk count, the initiating POST and the open()
upload_file_initiate ==
  /\ pc = "upload_file_273"
  /\ \E fl \in LocalFiles :
     /\ file' = fl
     /\ IF ~PathExists(fl)
        THEN /\ Raise("FileNotFoundError", <<"File does not exist">>)
             /\ UNCHANGED <<reqs, up>>
        ELSE IF up.chunk_size = 0
        THEN /\ Raise("ZeroDivisionError", <<"integer division or modulo by zero">>)
             /\ UNCHANGED <<reqs, up>>
        ELSE LET chunk_count == ChunkCount(fl.size, up.chunk_size) IN
          \E r \in InitiateResponses :
            /\ Issue([Req0 EXCEPT !.kind = "initiate", !.headers = headers,
                                  !.chunkCount = chunk_count, !.resp = r])
            /\ CASE r = "transport_error" ->
                      /\ Raise("RequestException", <<"transport">>)
                      /\ up' = [up EXCEPT !.chunk_count = chunk_count]
                 [] NoFileId(r) ->
                      /\ Raise("RequestException", <<"No file ID returned">>)
                      /\ up' = [up EXCEPT !.chunk_count = chunk_count]
                 [] OTHER ->
                      /\ up' = [up EXCEPT !.chunk_count = chunk_count, !.file_id = r,
                                          !.range_next = 0]
                      /\ f' = [open |-> TRUE, pos |-> 0]
                      /\ pc' = "upload_file_295"
                      /\ UNCHANGED <<stack, rv, outcome>>
  /\ UNCHANGED <<top, token, headers, loc, trig, mon, chunk, seq>>

\* faulty variant: chunks are numbered from 1
upload_file_loop_from_one ==
  /\ pc = "upload_file_295"
  /\ IF up.range_next < up.chunk_count
     THEN LET n == Read(file.size, f.pos, up.chunk_size) IN
          /\ chunk' = [file_id |-> up.file_id, chunk_number |-> up.range_next + 1,
                       chunk_data |-> n]
          /\ f' = [f EXCEPT !.pos = @ + n]
          /\ up' = [up EXCEPT !.range_next = @ + 1]
          /\ Call("upload_file_chunk", "upload_file_295")
     ELSE /\ f' = WithExit(f)
          /\ pc' = "upload_file_302"
          /\ UNCHANGED <<stack, rv, outcome, chunk, up>>
  /\ UNCHANGED <<top, token, headers, reqs, loc, trig, mon, seq, file>>

\* one evaluation of `for chunk_number in range(chunk_count)`: read the next
\* chunk and pass it to upload_file_chunk, or leave the `with` block
upload_file_loop ==
  /\ pc = "upload_file_295"
  /\ IF up.range_next < up.chunk_count
     THEN LET n == Read(file.size, f.pos, up.chunk_size) IN
          /\ chunk' = [file_id |-> up.file_id, chunk_number |-> up.range_next,
                       chunk_data |-> n]
          /\ f' = [f EXCEPT !.pos = @ + n]
          /\ up' = [up EXCEPT !.range_next = @ + 1]
          /\ Call("upload_file_chunk", "upload_file_295")
     ELSE /\ f' = WithExit(f)
          /\ pc' = "upload_file_302"
          /\ UNCHANGED <<stack, rv, outcome, chunk, up>>
  /\ UNCHANGED <<top, token, headers, reqs, loc, trig, mon, seq, file>>

\* faulty variant: a failed completion call is logged but not re-raised
upload_file_complete_swallow ==
  /\ pc = "upload_file_302"
  /\ \E r \in {"ok", "transport_error"} :
       /\ Issue([Req0 EXCEPT !.kind = "complete", !.headers = headers,
                             !.file_id = up.file_id,
                             !.chunkCount = up.chunk_count, !.resp = r])
       /\ Return(<<up.file_id>>) /\ f' = f
  /\ UNCHANGED <<top, token, headers, loc, trig, mon, chunk, up, seq, file>>

upload_file_complete ==
  /\ pc = "upload_file_302"
  /\ \E r \in {"ok", "transport_error"} :
       /\ Issue([Req0 EXCEPT !.kind = "complete", !.headers = headers,
                             !.file_id = up.file_id,
                             !.chunkCount = up.chunk_count, !.resp = r])
       /\ IF r = "ok"
          THEN Return(<<up.file_id>>) /\ f' = f
          ELSE Raise("RequestException", <<"transport">>)
  /\ UNCHANGED <<top, token, headers, loc, trig, mon, chunk, up, seq, file>>

call_upload_file ==
  \E chunk_size \in ChunkSizes :
    /\ Invoke("upload_file", "upload_file")
    /\ Frames(loc0, trig0, mon0, chunk0, [up0 EXCEPT !.chunk_size = chunk_size],
              seq0, file0)

(* ---------------- execute_sequence ---------------- *)
\* monitor_task as execute_sequence calls it: default interval and attempts
MonitorCall(process_id, task_id) ==
  [process_id |-> process_id, task_id |-> task_id,
   poll_interval |-> poll_interval_default, max_attempts |-> MaxAttempts,
   attempt |-> 0]

\* faulty variant: only FAILED aborts the sequence
WakeUpFailedOnlyFAILED(wake_up_result) == wake_up_result[1] = "FAILED"
\* `wake_up_result["status"] != "COMPLETE"`
WakeUpFailed(wake_up_result) == wake_up_result[1] # "COMPLETE"

\* line 414: resolve the wake-up process
execute_sequence ==
  /\ pc = "execute_sequence"
  /\ loc' = [loc0 EXCEPT !.name = seq.process_wake_up]
  /\ Call("list_processes", "execute_sequence_415")
  /\ UNCHANGED <<top, token, headers, reqs, trig, mon, chunk, up, seq, file, f>>

\* line 415: trigger it
execute_sequence_415 ==
  /\ pc = "execute_sequence_415"
  /\ seq' = [seq EXCEPT !.wake_up_id = rv[1]]
  /\ trig' = [process_id |-> rv[1]]
  /\ Call("trigger_process", "execute_sequence_416")
  /\ UNCHANGED <<top, token, headers, reqs, loc, mon, chunk, up, file, f>>

\* line 416: poll it
execute_sequence_416 ==
  /\ pc = "execute_sequence_416"
  /\ seq' = [seq EXCEPT !.wake_up_task_id = rv[1]]
  /\ mon' = MonitorCall(seq.wake_up_id, rv[1])
  /\ Call("monitor_task", "execute_sequence_417")
  /\ UNCHANGED <<top, token, headers, reqs, loc, trig, chunk, up, file, f>>

\* lines 417-421: check the wake-up result, then upload
execute_sequence_417 ==
  /\ pc = "execute_sequence_417"
  /\ IF WakeUpFailed(rv)
     THEN /\ Raise("RequestException", <<"Wake-up process failed: ", rv[2]>>)
          /\ up' = up
     ELSE /\ up' = [up0 EXCEPT !.chunk_size = seq.chunk_size]
          /\ Call("upload_file", "execute_sequence_423")
          /\ f' = f
  /\ UNCHANGED <<top, token, headers, reqs, loc, trig, mon, chunk, seq, file>>

\* faulty variant: the id resolved for the wake-up process is reused when
\* the main process has the same name
execute_sequence_423_cached ==
  /\ pc = "execute_sequence_423"
  /\ seq' = [seq EXCEPT !.file_id = rv[1]]
  /\ IF seq.process_name = seq.process_wake_up
     THEN /\ loc' = loc
          /\ pc' = "execute_sequence_424"
          /\ rv' = <<seq.wake_up_id>>
          /\ UNCHANGED <<stack, outcome>>
     ELSE /\ loc' = [loc0 EXCEPT !.name = seq.process_name]
          /\ Call("list_processes", "execute_sequence_424")
  /\ UNCHANGED <<top, token, headers, reqs, trig, mon, chunk, up, file, f>>

\* line 423: resolve the main process
execute_sequence_423 ==
  /\ pc = "execute_sequence_423"
  /\ seq' = [seq EXCEPT !.file_id = rv[1]]
  /\ loc' = [loc0 EXCEPT !.name = seq.process_name]
  /\ Call("list_processes", "execute_sequence_424")
  /\ UNCHANGED <<top, token, headers, reqs, trig, mon, chunk, up, file, f>>

\* line 424: trigger it
execute_sequence_424 ==
  /\ pc = "execute_sequence_424"
  /\ seq' = [seq EXCEPT !.process_id = rv[1]]
  /\ trig' = [process_id |-> rv[1]]
  /\ Call("trigger_process", "execute_sequence_425")
  /\ UNCHANGED <<top, token, headers, reqs, loc, mon, chunk, up, file, f>>

\* faulty variant: the main poll is given the ids of the wake-up job
execute_sequence_425_wake_up ==
  /\ pc = "execute_sequence_425"
  /\ seq' = [seq EXCEPT !.task_id = rv[1]]
  /\ mon' = MonitorCall(seq.wake_up_id, seq.wake_up_task_id)
  /\ Call("monitor_task", "execute_sequence_426")
  /\ UNCHANGED <<top, token, headers, reqs, loc, trig, chunk, up, file, f>>

\* line 425: poll it
execute_sequence_425 ==
  /\ pc = "execute_sequence_425"
  /\ seq' = [seq EXCEPT !.task_id = rv[1]]
  /\ mon' = MonitorCall(seq.process_id, rv[1])
  /\ Call("monitor_task", "execute_sequence_426")
  /\ UNCHANGED <<top, token, headers, reqs, loc, trig, chunk, up, file, f>>

\* faulty variant: only FAILED makes the main step fail
MainProcessFailedOnlyFAILED(main_process_result) == main_process_result[1] = "FAILED"
\* `main_process_result["status"] != "COMPLETE"`
MainProcessFailed(main_process_result) == main_process_result[1] # "COMPLETE"

\* lines 426-430: check the main result
execute_sequence_426 ==
  /\ pc = "execute_sequence_426"
  /\ IF MainProcessFailed(rv)
     THEN Raise("RequestException", <<"Main process failed: ", rv[2]>>)
     ELSE Return(<<>>) /\ f' = f
  /\ UNCHANGED <<top, token, headers, reqs, loc, trig, mon, chunk, up, seq, file>>

call_execute_sequence ==
  \E process_wake_up \in Names, process_name \in Names, chunk_size \in ChunkSizes :
    /\ Invoke("execute_sequence", "execute_sequence")
    /\ Frames(loc0, trig0, mon0, chunk0, up0,
              [seq0 EXCEPT !.process_wake_up = process_wake_up,
                           !.process_name = process_name,
                           !.chunk_size = chunk_size],
              file0)

Next ==
  \/ call_authenticate
  \/ authenticate
  \/ call_get_file_id
  \/ list_files
  \/ list_files_get
  \/ get_file_id
  \/ call_get_process_id
  \/ list_processes
  \/ list_processes_get
  \/ get_process_id
  \/ call_trigger_process
  \/ trigger_process
  \/ trigger_process_post
  \/ call_monitor_task
  \/ monitor_task
  \/ monitor_task_poll
  \/ monitor_task_timeout
  \/ call_upload_file_chunk
  \/ upload_file_chunk
  \/ upload_file_chunk_put
  \/ call_upload_file
  \/ upload_file
  \/ upload_file_initiate
  \/ upload_file_loop
  \/ upload_file_complete
  \/ call_execute_sequence
  \/ execute_sequence
  \/ execute_sequence_415
  \/ execute_sequence_416
  \/ execute_sequence_417
  \/ execute_sequence_423
  \/ execute_sequence_424
  \/ execute_sequence_425
  \/ execute_sequence_426

Spec == Init /\ [][Next]_vars

\* one statement of the call in progress: everything but the entry of a
\* top-level call
Step ==
  \/ authenticate
  \/ list_files
  \/ list_files_get
  \/ get_file_id
  \/ list_processes
  \/ list_processes_get
  \/ get_process_id
  \/ trigger_process
  \/ trigger_process_post
  \/ monitor_task
  \/ monitor_task_poll
  \/ monitor_task_timeout
  \/ upload_file_chunk
  \/ upload_file_chunk_put
  \/ upload_file
  \/ upload_file_initiate
  \/ upload_file_loop
  \/ upload_file_complete
  \/ execute_sequence
  \/ execute_sequence_415
  \/ execute_sequence_416
  \/ execute_sequence_417
  \/ execute_sequence_423
  \/ execute_sequence_424
  \/ execute_sequence_425
  \/ execute_sequence_426

\* the interpreter runs a call in progress to its next statement: every
\* request carries timeout=10 and sleep(poll_interval) is finite, so each
\* statement returns or raises
FairSpec == Spec /\ WF_vars(Step)

(* ======================================================================= *)
(* Properties                                                              *)
(* ======================================================================= *)
Idx(kind) == {i \in DOMAIN reqs : reqs[i].kind = kind}
UploadIdx == Idx("initiate") \cup Idx("chunk") \cup Idx("complete")
CompleteSeen == \E i \in Idx("status") : reqs[i].resp = "COMPLETE"
Ended == pc = "idle"
Failed == Ended /\ outcome.kind = "raise"
Succeeded == Ended /\ outcome.kind = "return"
InSequence == top = "execute_sequence"
InUpload == top \in {"upload_file", "execute_sequence"}
MinOf(S) == CHOOSE x \in S : \A y \in S : x <= y

\* C1: in execute_sequence, as long as no status response reported COMPLETE
\* (the wake-up poll ended FAILED or CANCELLED, timed out, or the resolve,
\* trigger or poll raised), no initiate, chunk or complete request has been
\* issued, at most one process listing and one trigger (the wake-up ones)
\* have been issued, every status request is addressed to the wake-up task,
\* and when the call has ended it has ended in failure.
C1_WakeUpFailureAborts ==
  (InSequence /\ ~CompleteSeen) =>
    /\ UploadIdx = {}
    /\ Cardinality(Idx("list_processes")) <= 1
    /\ Cardinality(Idx("trigger")) <= 1
    /\ \A i \in Idx("status") : reqs[i].task_id = seq.wake_up_task_id
    /\ Ended => outcome.kind = "raise"

C1_Witness ==
  /\ InSequence /\ Failed /\ ~CompleteSeen
  /\ \E i \in Idx("status") : reqs[i].resp = "CANCELLED"

\* C2: in execute_sequence every initiate request is preceded by a trigger
\* and by a status response COMPLETE for the task that trigger created; a
\* second trigger is preceded by a completion call that succeeded, which lies
\* after the first trigger; and no more than two triggers are issued, one
\* before the upload and one after it.
C2_StepOrder ==
  InSequence =>
    /\ \A i \in Idx("initiate") :
         \E j \in Idx("trigger"), k \in Idx("status") :
           /\ j < k /\ k < i
           /\ reqs[k].resp = "COMPLETE"
           /\ reqs[k].task_id = reqs[j].resp
    /\ \A i \in Idx("trigger"), j \in Idx("trigger") :
         i < j => \E k \in Idx("complete") : i < k /\ k < j /\ reqs[k].resp = "ok"
    /\ Cardinality(Idx("trigger")) <= 2
    /\ Cardinality(Idx("initiate")) <= 1
    /\ Cardinality(Idx("complete")) <= 1

C2_Witness ==
  /\ InSequence /\ Succeeded
  /\ Cardinality(Idx("trigger")) = 2

\* ceil(S / C) for S >= 0 and C > 0, from its defining inequalities
Ceil(S, C) == CHOOSE n \in 0..S : n * C >= S /\ (n > 0 => (n - 1) * C < S)

RECURSIVE SumSizes(_)
SumSizes(I) ==
  IF I = {} THEN 0
  ELSE LET i == CHOOSE x \in I : TRUE IN reqs[i].size + SumSizes(I \ {i})

\* C3: when upload_file succeeded on a file of S bytes with chunk size C > 0,
\* exactly ceil(S/C) chunk requests were sent, each body has C bytes except
\* the one with the last index, which has S - (ceil(S/C)-1)*C bytes, the body
\* sizes sum to S, and the completion call declared ceil(S/C) chunks.
C3_ChunkCountAndSizes ==
  \A c \in Idx("complete") :
    (InUpload /\ reqs[c].resp = "ok" /\ up.chunk_size > 0) =>
      LET S == file.size
          C == up.chunk_size
          n == Ceil(S, C)
      IN /\ Cardinality(Idx("chunk")) = n
         /\ \A i \in Idx("chunk") :
              reqs[i].size = IF reqs[i].chunk_number = n - 1
                             THEN S - (n - 1) * C ELSE C
         /\ SumSizes(Idx("chunk")) = S
         /\ reqs[c].chunkCount = n

C3_Witness ==
  /\ top = "upload_file" /\ Succeeded
  /\ file.size = 2 * up.chunk_size + 1
  /\ up.chunk_size = 2
  /\ Cardinality(Idx("chunk")) = 3

ChunkReqs == SelectSeq(reqs, LAMBDA r : r.kind = "chunk")

\* C4: during upload_file the chunk requests issued so far carry the indices
\* 0, 1, ..., j in this order (the n-th chunk request carries index n-1), none
\* beyond chunk_count-1, and once the upload succeeded there are exactly
\* chunk_count of them (none when chunk_count <= 0).
C4_ChunkIndicesContiguous ==
  InUpload =>
    /\ \A n \in DOMAIN ChunkReqs : ChunkReqs[n].chunk_number = n - 1
    /\ Len(ChunkReqs) <= IF up.chunk_count > 0 THEN up.chunk_count ELSE 0
    /\ (\E c \in Idx("complete") : reqs[c].resp = "ok") =>
         Len(ChunkReqs) = IF up.chunk_count > 0 THEN up.chunk_count ELSE 0

C4_Witness ==
  /\ top = "upload_file" /\ Succeeded
  /\ Len(ChunkReqs) >= 3

\* C5: when the chunk request with index k failed during upload_file, it is
\* the last request issued: every other chunk request carries an index below
\* k, no completion call was issued, the file handle is closed and the call
\* has ended with the request's exception.
C5_ChunkFailureAborts ==
  InUpload =>
    \A i \in Idx("chunk") :
      reqs[i].resp = "transport_error" =>
        /\ i = Len(reqs)
        /\ \A j \in Idx("chunk") \ {i} : reqs[j].chunk_number < reqs[i].chunk_number
        /\ Idx("complete") = {}
        /\ ~f.open
        /\ Failed
        /\ outcome.type = "RequestException"

C5_Witness ==
  /\ top = "upload_file" /\ Failed /\ ~f.open
  /\ up.chunk_count >= 3
  /\ \E i \in Idx("chunk") : reqs[i].resp = "transport_error" /\ reqs[i].chunk_number = 1
(* ---- the polling loop ---- *)
\* index of the first status request of the task being (or last) polled
PollFrom == MinOf({i \in Idx("status") : reqs[i].task_id = mon.task_id} \cup {Len(reqs) + 1})
Polls == {i \in Idx("status") : i >= PollFrom}
Sleeps == {i \in Idx("sleep") : i >= PollFrom}
AllNonTerminal(I) == \A i \in I : reqs[i].resp \in NonTerminalStates
TimedOut == Ended /\ outcome.kind = "raise" /\ outcome.type = "TimeoutError"
Polling == top \in {"monitor_task", "execute_sequence"} /\ mon.task_id # None
AuthFailed == \E i \in Idx("authenticate") : reqs[i].resp \notin Tokens

\* C6: monitor_task never issues more than max_attempts status requests for
\* a task; it ends in the timeout error exactly when max_attempts status
\* requests were issued and all of them got a non-terminal response; by then
\* it has slept max_attempts times, poll_interval seconds each, that is
\* max_attempts * poll_interval seconds in total.
C6_TimeoutAfterMaxAttempts ==
  Polling =>
    /\ Cardinality(Polls) <= mon.max_attempts
    /\ TimedOut =>
         /\ Cardinality(Polls) = mon.max_attempts
         /\ AllNonTerminal(Polls)
         /\ Cardinality(Sleeps) = mon.max_attempts
         /\ \A i \in Sleeps : reqs[i].size = mon.poll_interval
         /\ SumSizes(Sleeps) = mon.max_attempts * mon.poll_interval
    /\ (Ended /\ ~AuthFailed /\ Cardinality(Polls) = mon.max_attempts
          /\ AllNonTerminal(Polls)) => TimedOut

C6_Witness ==
  /\ top = "monitor_task" /\ TimedOut
  /\ mon.max_attempts >= 2
  /\ mon.poll_interval = poll_interval_default
  /\ SumSizes(Sleeps) = mon.max_attempts * poll_interval_default

\* C7: a status response COMPLETE, FAILED or CANCELLED ends the poll of that
\* task: no later status request addresses the task, the next thing issued is
\* not a sleep, and monitor_task returns that state as the result's status;
\* a poll whose first response is terminal has not slept at all.
C7_ReturnsAtFirstTerminal ==
  /\ \A i \in Idx("status") :
       reqs[i].resp \in TerminalStates =>
         /\ \A j \in Idx("status") : j > i => reqs[j].task_id # reqs[i].task_id
         /\ i < Len(reqs) => reqs[i + 1].kind # "sleep"
         /\ i = PollFrom => Sleeps = {}
         /\ (i = Len(reqs) /\ top = "monitor_task") =>
              /\ Succeeded
              /\ outcome.value[1] = reqs[i].resp
  /\ (InSequence /\ pc \in {"execute_sequence_417", "execute_sequence_426"}) =>
       /\ reqs[Len(reqs)].kind = "status"
       /\ reqs[Len(reqs)].resp \in TerminalStates
       /\ rv[1] = reqs[Len(reqs)].resp

C7_Witness ==
  /\ top = "monitor_task" /\ Succeeded
  /\ outcome.value[1] = "COMPLETE"
  /\ Cardinality(Idx("status")) = 1
  /\ Idx("sleep") = {}
  /\ mon.max_attempts >= 2

\* C8: a status request that fails at the transport level is the last thing
\* monitor_task issues: no status request and no sleep follows it, whatever
\* the number of attempts left, and the call has ended with the request's
\* exception (the error outcome of the poll).
C8_PollTransportErrorAborts ==
  \A i \in Idx("status") :
    reqs[i].resp = "transport_error" =>
      /\ i = Len(reqs)
      /\ Failed
      /\ outcome.type = "RequestException"

C8_Witness ==
  /\ top = "monitor_task" /\ Failed
  /\ mon.max_attempts >= 2
  /\ Cardinality(Idx("status")) = 1
  /\ reqs[Len(reqs)].kind = "status"
  /\ reqs[Len(reqs)].resp = "transport_error"

(* ---- the resource locator ---- *)
Matches == {i \in DOMAIN loc.items : loc.items[i].name = loc.name}
Listed == \E i \in Idx("list_files") \cup Idx("list_processes") : reqs[i].resp = "ok"

\* C9: once get_file_id or get_process_id has ended on a listing it received,
\* it has returned the id of the entry with the smallest position among the
\* entries whose name is the requested string, or, when there is no such
\* entry (also in an empty listing), it has raised the not-found error whose
\* message names the requested resource.
C9_FirstExactMatch ==
  (top \in {"get_file_id", "get_process_id"} /\ Ended /\ Listed) =>
    IF Matches = {}
    THEN /\ Failed
         /\ outcome.type = "ValueError"
         /\ outcome.msg = <<IF top = "get_file_id" THEN "File " ELSE "Process ",
                            loc.name, " not found">>
    ELSE /\ Succeeded
         /\ outcome.value = <<loc.items[MinOf(Matches)].id>>

C9_Witness ==
  /\ top = "get_process_id" /\ Succeeded
  /\ Cardinality(Matches) = 2
  /\ loc.items[1].id # loc.items[2].id
  /\ outcome.value = <<loc.items[1].id>>

(* ---- the session ---- *)
Authorized == DOMAIN reqs \ (Idx("authenticate") \cup Idx("sleep"))

\* C10: every request other than the authentication request carries the
\* headers of a session, and while no session is cached the only requests the
\* instance has issued in the current call are authentication requests; so a
\* call entered without a session authenticates before its first authorized
\* request, also when the caller invoked a method other than authenticate.
C10_LazyAuthentication ==
  /\ \A i \in Authorized : reqs[i].headers \in Tokens
  /\ headers = None => \A i \in DOMAIN reqs : reqs[i].kind = "authenticate"
  /\ \A i \in Authorized :
       (\E j \in Idx("authenticate") : j < i) =>
         \E j \in Idx("authenticate") : j < i /\ reqs[j].resp = reqs[i].headers

C10_Witness ==
  /\ InSequence
  /\ Len(reqs) >= 2
  /\ reqs[1].kind = "authenticate"
  /\ reqs[2].kind = "list_processes"
  /\ reqs[2].headers = reqs[1].resp
(* ---- the outcome of the sequence ---- *)
WakeUpComplete ==
  \E i \in Idx("status") : reqs[i].task_id = seq.wake_up_task_id /\ reqs[i].resp = "COMPLETE"
UploadCompleted == \E i \in Idx("complete") : reqs[i].resp = "ok"
MainComplete ==
  \E i \in Idx("status") : reqs[i].task_id = seq.task_id /\ reqs[i].resp = "COMPLETE"
MainPolled == \E i \in Idx("status") : reqs[i].task_id = seq.task_id

C12_UploadProtocolOrder ==
  InUpload =>
    /\ Cardinality(Idx("initiate")) <= 1
    /\ Cardinality(Idx("complete")) <= 1
    /\ \A j \in Idx("initiate") :
         /\ reqs[j].chunkCount = up.chunk_count
         /\ reqs[j].resp \notin FileIds =>
              /\ j = Len(reqs)
              /\ Failed
              /\ outcome.type = "RequestException"
              /\ reqs[j].resp = "no_id" => outcome.msg = <<"No file ID returned">>
    /\ \A i \in Idx("chunk") \cup Idx("complete") :
         \E j \in Idx("initiate") :
           /\ j < i
           /\ reqs[j].resp \in FileIds
           /\ reqs[i].file_id = reqs[j].resp
    /\ \A c \in Idx("complete") :
         /\ \A i \in Idx("chunk") : i < c /\ reqs[i].resp = "ok"
         /\ Cardinality(Idx("chunk")) = IF up.chunk_count > 0 THEN up.chunk_count ELSE 0
         /\ \A j \in Idx("initiate") : reqs[c].chunkCount = reqs[j].chunkCount

C12_Witness ==
  /\ top = "upload_file" /\ Succeeded
  /\ up.chunk_count = 2
  /\ Cardinality(Idx("chunk")) = 2
  /\ reqs[Len(reqs)].kind = "complete"
  /\ reqs[Len(reqs)].chunkCount = 2
(* ---- the session, continued ---- *)
\* C13: when an authentication request of the current call failed (transport
\* error, status other than SUCCESS, or no token in the response), the call
\* has ended in an error and the instance holds no token and no headers,
\* whether or not an earlier authenticate() had succeeded.
C13_FailedAuthLeavesNoSession ==
  AuthFailed =>
    /\ Failed
    /\ token = None
    /\ headers = None

ExplicitAuth == top = "authenticate" /\ pc = "authenticate"

\* C14 (as amended): once a session is cached, only a step of an explicit
\* authenticate() call changes the token or the headers or issues an
\* authentication request, whatever the authorized requests are answered; so
\* a run of execute_sequence issues at most one authentication request, as
\* its first request when it starts without a session, and none when a
\* session is cached already.
C14_SessionFrame ==
  /\ [](InSequence =>
          /\ Idx("authenticate") \subseteq {1}
          /\ (Succeeded /\ reqs[1].kind # "authenticate") => Idx("authenticate") = {})
  /\ [][(headers # None /\ ~ExplicitAuth) =>
          /\ token' = token
          /\ headers' = headers
          /\ Len(reqs') > Len(reqs) => reqs'[Len(reqs')].kind # "authenticate"]_vars

C14_Witness ==
  /\ InSequence /\ Failed
  /\ Idx("authenticate") = {}
  /\ headers \in Tokens /\ token = headers
  /\ Len(reqs) >= 3
  /\ reqs[Len(reqs)].resp = "transport_error"

\* C14 (as stated): a full run of execute_sequence issues exactly one
\* authentication request.
C14_ExactlyOneAuthPerRun ==
  (InSequence /\ Succeeded) => Cardinality(Idx("authenticate")) = 1

\* C15: upload_file with a chunk size of 0 or below issues no initiate, chunk
\* or completion request and ends in an error.
C15_BadChunkSizeRejected ==
  (InUpload /\ up.chunk_size <= 0) =>
    /\ UploadIdx = {}
    /\ Ended => Failed
(* ---- triggering ---- *)
\* C16: a run request that failed at the transport level or was answered
\* without the success message is the last request of the call, which has
\* ended with the trigger's RequestException; trigger_process returns only
\* the task id of an accepted run request; and in execute_sequence every
\* status request polls the task id and process id of an earlier accepted
\* run request, so no status request follows a trigger that failed.
C16_TriggerErrorNoTaskId ==
  /\ \A i \in Idx("trigger") :
       /\ reqs[i].resp \in {"transport_error", "not_success"} =>
            /\ Failed
            /\ outcome.type = "RequestException"
       /\ reqs[i].resp \notin TaskIds =>
            /\ i = Len(reqs)
            /\ Failed
  /\ (top = "trigger_process" /\ Succeeded) =>
       /\ reqs[Len(reqs)].kind = "trigger"
       /\ reqs[Len(reqs)].resp \in TaskIds
       /\ outcome.value = <<reqs[Len(reqs)].resp>>
  /\ (InSequence /\ pc \in {"execute_sequence_416", "execute_sequence_425"}) =>
       /\ reqs[Len(reqs)].kind = "trigger"
       /\ rv = <<reqs[Len(reqs)].resp>>
       /\ rv[1] \in TaskIds
  /\ InSequence =>
       \A k \in Idx("status") :
         \E j \in Idx("trigger") :
           /\ j < k
           /\ reqs[j].resp \in TaskIds
           /\ reqs[k].task_id = reqs[j].resp
           /\ reqs[k].process_id = reqs[j].process_id

C16_Witness ==
  /\ InSequence /\ Failed
  /\ Cardinality(Idx("trigger")) = 2
  /\ reqs[Len(reqs)].kind = "trigger"
  /\ reqs[Len(reqs)].resp = "not_success"
  /\ outcome.type = "RequestException"

(* ---- the local file ---- *)
OnlyWakeUpRequests ==
  /\ Cardinality(Idx("list_processes")) = 1
  /\ Cardinality(Idx("trigger")) = 1
  /\ \A i \in Idx("status") : reqs[i].task_id = seq.wake_up_task_id

\* C17: when upload_file finds no file at the local path it raises
\* FileNotFoundError and has issued no initiate, chunk or completion request;
\* inside execute_sequence this happens after the wake-up task was observed
\* COMPLETE, ends the sequence in failure, and the only listing, trigger and
\* status requests of the run are those of the wake-up process.
C17_MissingFileAborts ==
  /\ (InUpload /\ ~file.exists) => UploadIdx = {}
  /\ (top = "upload_file" /\ Ended /\ ~AuthFailed /\ ~file.exists) =>
       Failed /\ outcome.type = "FileNotFoundError"
  /\ (InSequence /\ Ended /\ WakeUpComplete /\ ~file.exists) =>
       Failed /\ outcome.type = "FileNotFoundError"
  /\ (InSequence /\ Ended /\ outcome.type = "FileNotFoundError") =>
       /\ Failed
       /\ ~file.exists
       /\ WakeUpComplete
       /\ OnlyWakeUpRequests

C17_Witness ==
  /\ InSequence /\ Failed
  /\ outcome.type = "FileNotFoundError"
  /\ WakeUpComplete
  /\ UploadIdx = {}
(* ---- termination ---- *)
StatusFor(t) == {i \in Idx("status") : reqs[i].task_id = t}
Hung(t) == StatusFor(t) # {} /\ AllNonTerminal(StatusFor(t))

\* C19: every execute_sequence call in progress eventually ends, whatever the
\* platform answers; it never issues more than max_attempts status requests
\* for the wake-up task nor for the main task; and a run whose task answered
\* each of its max_attempts status requests with a non-terminal state has
\* ended with the TimeoutError.
C19_SequenceTerminates ==
  /\ [](InSequence =>
         /\ \A t \in TaskIds : Cardinality(StatusFor(t)) <= MaxAttempts
         /\ \A t \in TaskIds :
              (Ended /\ Hung(t) /\ Cardinality(StatusFor(t)) = MaxAttempts) => TimedOut
         /\ TimedOut => \E t \in TaskIds :
                          Hung(t) /\ Cardinality(StatusFor(t)) = MaxAttempts)
  /\ (InSequence /\ ~Ended) ~> (InSequence /\ Ended)

C19_Witness ==
  /\ InSequence /\ TimedOut
  /\ CompleteSeen
  /\ Hung(seq.task_id)
  /\ Cardinality(StatusFor(seq.task_id)) = MaxAttempts
  /\ Cardinality(Idx("status")) > MaxAttempts
(* ---- the report of a failure ---- *)
StepNames == {"wake_up", "file_upload", "main_process"}

\* the step of execute_sequence in which a failed run failed, read off the
\* requests it issued
FailedStep ==
  IF ~WakeUpComplete THEN "wake_up"
  ELSE IF ~UploadCompleted THEN "file_upload"
  ELSE "main_process"

\* C18: the report of a failed execute_sequence determines the step that
\* failed: for the timeout report there is one step such that every run
\* ending with that report failed in that step.
C18_FailureIdentifiesStep ==
  \E s \in StepNames : [](InSequence /\ TimedOut => FailedStep = s)
(* ---- stop and report ---- *)
\* a request whose response makes the step that issued it fail
Bad(r) ==
  /\ r.kind # "sleep"
  /\ \/ r.resp \in {"transport_error", "not_success", "no_task", "no_id", "no_token"}
     \/ r.kind = "status" /\ r.resp \in {"FAILED", "CANCELLED"}

Count(kind) == Cardinality(Idx(kind))

\* C20: in execute_sequence a request whose response fails its step is the
\* last request of the run: the run has ended in failure, or holds the
\* FAILED/CANCELLED result it is about to raise for; the step that raises
\* issues nothing but the failing request itself; no request is repeated (at
\* most one authentication, one process listing and one trigger per process
\* step, one initiate, one completion, one request per chunk number); and a
\* failed run issues nothing more.
C20_StopAndReport ==
  /\ [](InSequence =>
         /\ \A i \in 1..Len(reqs) :
              Bad(reqs[i]) =>
                /\ i = Len(reqs)
                /\ pc \in {"idle", "execute_sequence_417", "execute_sequence_426"}
                /\ Ended => Failed
         /\ Count("authenticate") <= 1
         /\ Count("list_processes") <= 2 /\ Count("trigger") <= 2
         /\ Count("list_files") = 0
         /\ Count("initiate") <= 1 /\ Count("complete") <= 1
         /\ \A i, j \in Idx("chunk") :
              reqs[i].chunk_number = reqs[j].chunk_number => i = j
         /\ ~CompleteSeen => Count("list_processes") <= 1 /\ Count("trigger") <= 1)
  /\ [][/\ (InSequence /\ ~Ended /\ Failed') =>
             /\ Len(reqs') <= Len(reqs) + 1
             /\ SubSeq(reqs', 1, Len(reqs)) = reqs
             /\ Len(reqs') = Len(reqs) + 1 => Bad(reqs'[Len(reqs')])
        /\ (InSequence /\ Failed) => (reqs' = reqs \/ reqs' = <<>>)]_vars

C20_Witness ==
  /\ InSequence /\ Failed
  /\ WakeUpComplete
  /\ Count("chunk") >= 2
  /\ reqs[Len(reqs)].kind = "chunk"
  /\ reqs[Len(reqs)].resp = "transport_error"
  /\ \E i \in Idx("chunk") : reqs[i].resp = "ok"
  /\ Count("complete") = 0
(* ---- which job is polled ---- *)
MaxOf(S) == CHOOSE x \in S : \A y \in S : y <= x
\* index of the last trigger request issued before request k (0 when none)
LastTrigger(k) == MaxOf({j \in Idx("trigger") : j < k} \cup {0})

\* C21: in execute_sequence every status request follows a trigger request,
\* and carries the process id of the most recent one and the task id that
\* one returned; the first trigger is the wake-up one and the second the
\* main one, with the ids execute_sequence keeps for them; and once the main
\* trigger has been issued the wake-up poll is over: the wake-up task was
\* observed COMPLETE before it and is never polled after it.
C21_PollsMostRecentJob ==
  InSequence =>
    /\ \A k \in Idx("status") :
         LET j == LastTrigger(k) IN
           /\ j # 0
           /\ reqs[j].resp \in TaskIds
           /\ reqs[k].task_id = reqs[j].resp
           /\ reqs[k].process_id = reqs[j].process_id
    /\ \A j \in Idx("trigger") :
         IF LastTrigger(j) = 0
         THEN /\ reqs[j].process_id = seq.wake_up_id
              /\ seq.wake_up_task_id # None => seq.wake_up_task_id = reqs[j].resp
         ELSE /\ reqs[j].process_id = seq.process_id
              /\ seq.task_id # None => seq.task_id = reqs[j].resp
              /\ reqs[j].resp # seq.wake_up_task_id
              /\ \E k \in Idx("status") :
                   /\ k < j
                   /\ reqs[k].task_id = seq.wake_up_task_id
                   /\ reqs[k].resp = "COMPLETE"
              /\ \A k \in Idx("status") :
                   k > j => reqs[k].task_id # seq.wake_up_task_id
    /\ \A k \in Idx("status") :
         reqs[k].task_id \in {seq.wake_up_task_id, seq.task_id}

C21_Witness ==
  /\ InSequence /\ Succeeded
  /\ seq.wake_up_id # seq.process_id
  /\ Cardinality(StatusFor(seq.wake_up_task_id)) >= 2
  /\ Cardinality(StatusFor(seq.task_id)) >= 2

(* ---- when names are resolved ---- *)
ListingAt(i) == reqs[i].kind = "list_processes" /\ reqs[i].resp = "ok"
NotFound == Failed /\ outcome.type = "ValueError"

\* C22: execute_sequence lists the processes once for each process step and
\* never reuses a listing: each trigger request is preceded by a listing of
\* its own, a successful run has issued two listings also when both steps
\* name the same process, and the second listing is issued only after the
\* wake-up task was observed COMPLETE and the upload's completion call
\* succeeded. So a not-found failure reached on the second listing names the
\* main process, comes after the wake-up trigger, the wake-up COMPLETE and the
\* completed upload, and before any main trigger; one reached on the first
\* listing names the wake-up process and comes before any trigger.
C22_NamesResolvedPerStep ==
  InSequence =>
    /\ Count("list_processes") <= 2
    /\ \A j \in Idx("trigger") :
         \E i \in Idx("list_processes") :
           /\ LastTrigger(j) < i /\ i < j
           /\ ListingAt(i)
    /\ Succeeded => Count("list_processes") = 2
    /\ \A i \in Idx("list_processes") :
         (\E h \in Idx("list_processes") : h < i) =>
           /\ \E k \in Idx("status") :
                k < i /\ reqs[k].task_id = seq.wake_up_task_id /\ reqs[k].resp = "COMPLETE"
           /\ \E c \in Idx("complete") : c < i /\ reqs[c].resp = "ok"
           /\ \A c \in UploadIdx : c < i
           /\ Cardinality({j \in Idx("trigger") : j < i}) = 1
    /\ NotFound =>
         /\ ListingAt(Len(reqs))
         /\ Find(loc.items, loc.name) = <<>>
         /\ outcome.msg = <<"Process ", loc.name, " not found">>
         /\ IF Count("list_processes") = 1
            THEN /\ loc.name = seq.process_wake_up
                 /\ Count("trigger") = 0
                 /\ UploadIdx = {}
            ELSE /\ loc.name = seq.process_name
                 /\ Count("trigger") = 1
                 /\ WakeUpComplete
                 /\ UploadCompleted
                 /\ seq.file_id \in FileIds

C22_Witness ==
  /\ InSequence /\ NotFound
  /\ seq.process_name = seq.process_wake_up
  /\ Count("list_processes") = 2
  /\ WakeUpComplete /\ UploadCompleted
  /\ Count("chunk") >= 1
====
